---------------------------- MODULE Spec2Model ----------------------------
(***************************************************************************)
(* RSA (src/rsa.py) and ElGamal signatures (src/elgamal.py) over their     *)
(* shared number-theoretic primitives.  quick_pow, extended_gcd,           *)
(* mod_inverse, _miller_rabin_test and is_prime are textually identical in *)
(* the two files and are modelled once.                                    *)
(*                                                                         *)
(* Python integers are unbounded and `%`, `//` are floored; for a positive *)
(* divisor TLA+'s % and \div are floored as well, so they are used as is.  *)
(* The random source (random.randint) is a nondeterministic choice over    *)
(* the closed range it is called with.                                     *)
(***************************************************************************)
EXTENDS Integers, Sequences, FiniteSets

VARIABLES
    call,   \* the last call of a pure primitive: function, arguments, result
    ip,     \* one run of is_prime: position, n, k, d, rounds done, result
    rsa,    \* an RSA key with one message encrypted and decrypted under it
    kg,     \* one run of rsa.key_gen, its two prime searches included
    eg      \* an ElGamal key, a message, its signatures and a verification

vars == <<call, ip, rsa, kg, eg>>

(***************************************************************************)
(* Bounds of the model.                                                    *)
(***************************************************************************)
MaxBase == 10         \* quick_pow: bases 0..MaxBase
MaxExp == 16          \* quick_pow: exponents 0..MaxExp
MaxMod == 10          \* quick_pow: moduli 1..MaxMod
MaxInv == 40          \* extended_gcd / mod_inverse: arguments 0..MaxInv
MaxGenP == 84          \* find_generator: safe primes up to MaxGenP
MaxPrimeN == 60       \* is_prime: numbers -2..MaxPrimeN
MaxRounds == 3        \* is_prime: round counts 0..MaxRounds
MaxRsaPrime == 13     \* RSA round trip: primes p, q up to MaxRsaPrime
MaxRsaE == 16         \* RSA round trip: public exponents 0..MaxRsaE
MaxSignP == 23        \* ElGamal: safe primes up to MaxSignP
MaxDigest == 25       \* ElGamal: message digests 0..MaxDigest
PrimeLo == 64         \* key_gen: prime candidates are drawn from
PrimeHi == 127        \*   PrimeLo..PrimeHi (7 bits in place of 1024)

(***************************************************************************)
(* Program constants.  key_gen fixes e = 65537 = 2^16 + 1 for 1024-bit     *)
(* primes; with the 7-bit primes of the model the public exponent is       *)
(* scaled to the Fermat prime 17 = 2^4 + 1, so that, as in the program,    *)
(* e is a prime smaller than the primes drawn and divides p - 1 for a few  *)
(* of them.                                                                *)
(***************************************************************************)
DefaultRounds == 5    \* is_prime(n, k = 5)
KeyGenE == 17         \* key_gen: e (65537 in the program, scaled)

(***************************************************************************)
(* Mathematical reference notions the claims are stated with.              *)
(***************************************************************************)
Max(a, b) == IF a >= b THEN a ELSE b

Divides(d, a) == a % d = 0

\* gcd(a, b) for a, b >= 0, gcd(0, 0) = 0: the greatest common divisor.
Gcd(a, b) ==
    IF a = 0 /\ b = 0 THEN 0
    ELSE LET common == {t \in 1..Max(a, b) : Divides(t, a) /\ Divides(t, b)}
         IN  CHOOSE g \in common : \A h \in common : h <= g

IsPrimeNumber(n) == n >= 2 /\ \A t \in 2..(n - 1) : n % t # 0

IsSafePrime(p) == IsPrimeNumber(p) /\ p % 2 = 1 /\ IsPrimeNumber((p - 1) \div 2)

\* m^e mod n by e successive multiplications.
RECURSIVE ModExp(_, _, _)
ModExp(m, e, n) == IF e = 0 THEN 1 % n ELSE (m * ModExp(m, e - 1, n)) % n

\* g generates the whole multiplicative group modulo p.
IsGenerator(g, p) == {ModExp(g, t, p) : t \in 1..(p - 1)} = 1..(p - 1)

(***************************************************************************)
(* quick_pow: square-and-multiply, least significant bit first.            *)
(* `e & 1` is e % 2 = 1 and `e >>= 1` is e \div 2 for e >= 0.              *)
(***************************************************************************)
RECURSIVE quick_pow_loop(_, _, _, _, _)
quick_pow_loop(ans, m, e, n, iters) ==
    IF e = 0 THEN [ans |-> ans, iters |-> iters]
    ELSE quick_pow_loop(IF e % 2 = 1 THEN (ans * m) % n ELSE ans,
                        (m * m) % n, e \div 2, n, iters + 1)

\* The result and the number of loop iterations of quick_pow(m, e, n).
quick_pow_run(m, e, n) == quick_pow_loop(1, m, e, n, 0)

quick_pow(m, e, n) == quick_pow_run(m, e, n).ans

(***************************************************************************)
(* extended_gcd and mod_inverse.                                           *)
(***************************************************************************)
RECURSIVE extended_gcd(_, _)
extended_gcd(a, b) ==
    IF b = 0 THEN [gcd |-> a, x |-> 1, y |-> 0]
    ELSE LET r == extended_gcd(b, a % b)
         IN  [gcd |-> r.gcd, x |-> r.y, y |-> r.x - (a \div b) * r.y]

\* The Bezout coefficient is returned without the reduction modulo phi_n.
mod_inverse_unreduced(e, phi_n) ==
    LET r == extended_gcd(e, phi_n)
    IN  IF r.gcd # 1 THEN [raised |-> TRUE, value |-> 0]
        ELSE [raised |-> FALSE, value |-> r.x]

\* The coprimality test accepts every pair.
mod_inverse_unchecked(e, phi_n) ==
    LET r == extended_gcd(e, phi_n)
    IN  [raised |-> FALSE, value |-> r.x % phi_n]

\* raised: the call ended in ValueError; otherwise value is what it returned.
mod_inverse(e, phi_n) ==
    LET r == extended_gcd(e, phi_n)
    IN  IF r.gcd # 1 THEN [raised |-> TRUE, value |-> 0]
        ELSE [raised |-> FALSE, value |-> r.x % phi_n]

(***************************************************************************)
(* find_generator: the linear scan over range(2, p); found = FALSE is the  *)
(* `return None` after the loop.                                           *)
(***************************************************************************)
RECURSIVE find_generator_scan(_, _, _)
find_generator_scan(g, p, q) ==
    IF g >= p THEN [found |-> FALSE, g |-> 0]
    ELSE IF quick_pow(g, 2, p) # 1 /\ quick_pow(g, q, p) # 1
         THEN [found |-> TRUE, g |-> g]
         ELSE find_generator_scan(g + 1, p, q)

RECURSIVE find_generator_mut_scan(_, _, _)
find_generator_mut_scan(g, p, q) ==
    IF g >= p THEN [found |-> FALSE, g |-> 0]
    ELSE IF quick_pow(g, 2, p) # 1
         THEN [found |-> TRUE, g |-> g]
         ELSE find_generator_mut_scan(g + 1, p, q)

\* The test g^q mod p != 1 is left out.
find_generator_mut(p) == find_generator_mut_scan(2, p, (p - 1) \div 2)

find_generator(p) == find_generator_scan(2, p, (p - 1) \div 2)

(***************************************************************************)
(* _miller_rabin_test and is_prime.  The witness is a = 2 + randint(1,     *)
(* n - 4); randint raises ValueError on an empty range.                    *)
(***************************************************************************)
WitnessDraws(n) == {2 + t : t \in 1..(n - 4)}

RECURSIVE miller_rabin_squarings(_, _, _)
miller_rabin_squarings(x, d, n) ==
    IF d = n - 1 THEN FALSE
    ELSE LET x2 == (x * x) % n
             d2 == d * 2
         IN  IF x2 = 1 THEN FALSE
             ELSE IF x2 = n - 1 THEN TRUE
             ELSE miller_rabin_squarings(x2, d2, n)

\* The first test accepts x = 1 only, not x = n - 1.
miller_rabin_test_mut(d, n, a) ==
    LET x == quick_pow(a, d, n)
    IN  IF x = 1 THEN TRUE ELSE miller_rabin_squarings(x, d, n)

\* One round of _miller_rabin_test(d, n) in which the witness drawn is a.
miller_rabin_test(d, n, a) ==
    LET x == quick_pow(a, d, n)
    IN  IF x = 1 \/ x = n - 1 THEN TRUE ELSE miller_rabin_squarings(x, d, n)

\* is_prime's tests before the rounds: the answer, or "rounds" to go on.
is_prime_entry(n) ==
    IF n <= 1 THEN "False"
    ELSE IF n <= 3 THEN "True"
    ELSE IF n % 2 = 0 THEN "False"
    ELSE "rounds"

\* d = n - 1 halved while it is even.
RECURSIVE odd_part(_)
odd_part(d) == IF d % 2 = 0 THEN odd_part(d \div 2) ELSE d

(***************************************************************************)
(* rsa_encrypt and rsa_decrypt: quick_pow applied to each element.         *)
(***************************************************************************)
rsa_encrypt(plaintext_list, e, n) ==
    [i \in 1..Len(plaintext_list) |-> quick_pow(plaintext_list[i], e, n)]

\* Base and exponent are passed to quick_pow in the wrong order.
rsa_decrypt_mut(ciphertext_list, d, n) ==
    [i \in 1..Len(ciphertext_list) |-> quick_pow(d, ciphertext_list[i], n)]

rsa_decrypt(ciphertext_list, d, n) ==
    [i \in 1..Len(ciphertext_list) |-> quick_pow(ciphertext_list[i], d, n)]

(***************************************************************************)
(* ElGamal signmsg and verify.  A message enters both only through H_int,  *)
(* the integer value of its SHA-256 digest, so it is represented by that   *)
(* integer.  k is the draw that leaves signmsg's loop (gcd(k, p-1) = 1);   *)
(* k_inv is the Bezout coefficient extended_gcd returns, reduced or not.   *)
(***************************************************************************)
\* s is reduced modulo p instead of p - 1.
signmsg_mod_p(H_int, p, g, x, k) ==
    LET k_inv == extended_gcd(k, p - 1).x
        r == quick_pow(g, k, p)
        s == (k_inv * (H_int - x * r)) % p
    IN  [k |-> k, r |-> r, s |-> s]

\* r is computed modulo p - 1 instead of p.
signmsg_r_mod(H_int, p, g, x, k) ==
    LET k_inv == extended_gcd(k, p - 1).x
        r == quick_pow(g, k, p - 1)
        s == (k_inv * (H_int - x * r)) % (p - 1)
    IN  [k |-> k, r |-> r, s |-> s]

signmsg(H_int, p, g, x, k) ==
    LET k_inv == extended_gcd(k, p - 1).x
        r == quick_pow(g, k, p)
        s == (k_inv * (H_int - x * r)) % (p - 1)
    IN  [k |-> k, r |-> r, s |-> s]

\* The reduction modulo p binds to the second factor only.
verify_mut(H_int, r, s, p, g, y) ==
    LET yrrs == quick_pow(y, r, p) * (quick_pow(r, s, p) % p)
        gH == quick_pow(g, H_int, p)
    IN  yrrs = gH

verify(H_int, r, s, p, g, y) ==
    LET yrrs == (quick_pow(y, r, p) * quick_pow(r, s, p)) % p
        gH == quick_pow(g, H_int, p)
    IN  yrrs = gH

(***************************************************************************)
(* States before anything has run.                                         *)
(***************************************************************************)
CallIdle == [fn |-> "none", args |-> <<>>, out |-> [found |-> FALSE]]

IpIdle == [pc |-> "idle", n |-> 0, k |-> 0, d |-> 0, round |-> 0, result |-> "none"]

RsaIdle == [stage |-> "nokey", p |-> 0, q |-> 0, n |-> 0, phi_n |-> 0, e |-> 0,
            d |-> 0, m |-> 0, c |-> <<>>, out |-> <<>>]

KgIdle == [pc |-> "idle", p |-> 0, q |-> 0, cand |-> 0, round |-> 0,
           n |-> 0, phi_n |-> 0, e |-> 0, d |-> 0, status |-> "none"]

NoSig == [k |-> 0, r |-> 0, s |-> 0]

EgIdle == [stage |-> "nokey", p |-> 0, g |-> 0, y |-> 0, x |-> 0, H |-> 0,
           sig1 |-> NoSig, sig2 |-> NoSig, vH |-> 0, vsig |-> 0, vok |-> FALSE]

Init ==
    /\ call = CallIdle
    /\ ip = IpIdle
    /\ rsa = RsaIdle
    /\ kg = KgIdle
    /\ eg = EgIdle

(***************************************************************************)
(* The pure primitives, each called on every input of a bounded domain.    *)
(* The functions keep no state between calls.                              *)
(***************************************************************************)
\* mod_inverse is also called on the textbook pair e = 17, phi_n = 3120.
ModInverseInputs == ((0..MaxInv) \X (1..MaxInv)) \cup {<<17, 3120>>}

SafePrimesUpTo(b) == {p \in 5..b : IsSafePrime(p)}

CallQuickPow ==
    /\ call.fn = "none"
    /\ \E m \in 0..MaxBase, e \in 0..MaxExp, n \in 1..MaxMod :
          call' = [fn |-> "quick_pow", args |-> <<m, e, n>>,
                   out |-> quick_pow_run(m, e, n)]
    /\ UNCHANGED <<ip, rsa, kg, eg>>

CallExtendedGcd ==
    /\ call.fn = "none"
    /\ \E a \in 0..MaxInv, b \in 0..MaxInv :
          call' = [fn |-> "extended_gcd", args |-> <<a, b>>,
                   out |-> extended_gcd(a, b)]
    /\ UNCHANGED <<ip, rsa, kg, eg>>

CallModInverse ==
    /\ call.fn = "none"
    /\ \E in \in ModInverseInputs :
          call' = [fn |-> "mod_inverse", args |-> in,
                   out |-> mod_inverse(in[1], in[2])]
    /\ UNCHANGED <<ip, rsa, kg, eg>>

CallFindGenerator ==
    /\ call.fn = "none"
    /\ \E p \in SafePrimesUpTo(MaxGenP) :
          call' = [fn |-> "find_generator", args |-> <<p>>,
                   out |-> find_generator(p)]
    /\ UNCHANGED <<ip, rsa, kg, eg>>

\* The caller takes the result; the next call starts afresh.
Return ==
    /\ call.fn # "none"
    /\ call' = CallIdle
    /\ UNCHANGED <<ip, rsa, kg, eg>>

NextArith ==
    \/ CallQuickPow
    \/ CallExtendedGcd
    \/ CallModInverse
    \/ CallFindGenerator
    \/ Return

SpecArith == Init /\ [][NextArith]_vars

(***************************************************************************)
(* Claims about the pure primitives (checked under SpecArith).             *)
(***************************************************************************)
\* C5: for e >= 0, m > 1 with gcd(e, m) = 1, mod_inverse(e, m) returns the
\* unique d in [0, m) with (e * d) % m = 1, also when the Bezout coefficient is
\* negative, and mod_inverse(17, 3120) = 2753; extended_gcd(a, b) returns
\* (g, x, y) with g = gcd(a, b) = a*x + b*y.
C5_ModInverseCorrect ==
    /\ (call.fn = "mod_inverse" /\ call.args[2] > 1
            /\ Gcd(call.args[1], call.args[2]) = 1) =>
          LET e == call.args[1]
              m == call.args[2]
              d == call.out.value
          IN  /\ ~call.out.raised
              /\ d \in 0..(m - 1)
              /\ (e * d) % m = 1
              /\ \A d2 \in 0..(m - 1) : (e * d2) % m = 1 => d2 = d
              /\ (e = 17 /\ m = 3120) => d = 2753
    /\ call.fn = "extended_gcd" =>
          LET a == call.args[1]
              b == call.args[2]
          IN  /\ call.out.gcd = Gcd(a, b)
              /\ call.out.gcd = a * call.out.x + b * call.out.y

\* A coprime pair whose Bezout coefficient is negative has been inverted.
C5_Witness ==
    /\ call.fn = "mod_inverse"
    /\ call.args[2] > 1
    /\ ~call.out.raised
    /\ extended_gcd(call.args[1], call.args[2]).x < 0
    /\ call.out.value > 0

\* C6: for e >= 0 and m >= 1, mod_inverse(e, m) ends in ValueError exactly when
\* gcd(e, m) # 1.
C6_RaisesIffNotCoprime ==
    call.fn = "mod_inverse" =>
        (call.out.raised <=> Gcd(call.args[1], call.args[2]) # 1)

\* mod_inverse has raised on a pair that is not coprime.
C6_Witness ==
    /\ call.fn = "mod_inverse"
    /\ call.out.raised
    /\ Gcd(call.args[1], call.args[2]) > 1

\* The number of loop iterations is the number of bits of e.
IsBitLength(iters, e) ==
    IF e = 0 THEN iters = 0
    ELSE iters >= 1 /\ 2^(iters - 1) <= e /\ e < 2^iters

\* C8: quick_pow(m, e, n) = m^e mod n for all m >= 0, e >= 0, n >= 1 (e = 0 and
\* n = 1 included), it is 1 for e = 0, and the loop runs once per bit of e.
C8_QuickPowIsModExp ==
    call.fn = "quick_pow" =>
        LET m == call.args[1]
            e == call.args[2]
            n == call.args[3]
        IN  /\ call.out.ans = ModExp(m, e, n)
            /\ e = 0 => call.out.ans = 1
            /\ IsBitLength(call.out.iters, e)

\* What quick_pow does compute: m^e mod n unless e = 0 and n = 1, where the
\* unreduced initial value 1 is returned; one loop iteration per bit of e.
QuickPowExceptUnitModulus ==
    call.fn = "quick_pow" =>
        LET m == call.args[1]
            e == call.args[2]
            n == call.args[3]
        IN  /\ ~(e = 0 /\ n = 1) => call.out.ans = ModExp(m, e, n)
            /\ e = 0 => call.out.ans = 1
            /\ IsBitLength(call.out.iters, e)

\* g passes find_generator's two tests, by the reference exponentiation.
PassesGeneratorTest(g, p) ==
    ModExp(g, 2, p) # 1 /\ ModExp(g, (p - 1) \div 2, p) # 1

\* C10: for a safe prime p, find_generator(p) returns a value, the smallest g
\* in [2, p) with g^2 mod p # 1 and g^q mod p # 1, and it generates the whole
\* multiplicative group modulo p.
C10_FindGenerator ==
    call.fn = "find_generator" =>
        LET p == call.args[1]
            g == call.out.g
        IN  /\ call.out.found
            /\ g \in 2..(p - 1)
            /\ PassesGeneratorTest(g, p)
            /\ \A h \in 2..(g - 1) : ~PassesGeneratorTest(h, p)
            /\ IsGenerator(g, p)

\* find_generator has skipped at least one candidate before it returned.
C10_Witness ==
    /\ call.fn = "find_generator"
    /\ call.out.found
    /\ call.out.g > 2

(***************************************************************************)
(* is_prime(n, k), one Miller-Rabin round per step.                        *)
(***************************************************************************)
\* The numbers up to MaxPrimeN, negative ones included, and the larger primes
\* and the Carmichael number of the test vectors (97, 7919; 561).
IsPrimeInputs == ((-2)..MaxPrimeN) \cup {97, 561, 7919}

IsPrimeCall ==
    /\ ip.pc = "idle"
    /\ \E n \in IsPrimeInputs, k \in 0..MaxRounds :
          LET entry == is_prime_entry(n)
          IN  ip' = IF entry = "rounds"
                    THEN [pc |-> "rounds", n |-> n, k |-> k, d |-> odd_part(n - 1),
                          round |-> 0, result |-> "none"]
                    ELSE [pc |-> "done", n |-> n, k |-> k, d |-> 0,
                          round |-> 0, result |-> entry]
    /\ UNCHANGED <<call, rsa, kg, eg>>

\* One iteration of `for _ in range(k)`.
IsPrimeRound ==
    /\ ip.pc = "rounds"
    /\ ip.round < ip.k
    /\ IF WitnessDraws(ip.n) = {}
       THEN ip' = [ip EXCEPT !.pc = "done", !.result = "ValueError"]
       ELSE \E a \in WitnessDraws(ip.n) :
               IF miller_rabin_test(ip.d, ip.n, a)
               THEN ip' = [ip EXCEPT !.round = @ + 1]
               ELSE ip' = [ip EXCEPT !.pc = "done", !.round = @ + 1,
                                     !.result = "False"]
    /\ UNCHANGED <<call, rsa, kg, eg>>

\* The loop is over: `return True`.
IsPrimeAllPassed ==
    /\ ip.pc = "rounds"
    /\ ip.round = ip.k
    /\ ip' = [ip EXCEPT !.pc = "done", !.result = "True"]
    /\ UNCHANGED <<call, rsa, kg, eg>>

IsPrimeReturn ==
    /\ ip.pc = "done"
    /\ ip' = IpIdle
    /\ UNCHANGED <<call, rsa, kg, eg>>

NextPrime ==
    \/ IsPrimeCall
    \/ IsPrimeRound
    \/ IsPrimeAllPassed
    \/ IsPrimeReturn

SpecPrime == Init /\ [][NextPrime]_vars

\* C9: is_prime never ends in a failed witness draw; for a prime n it returns
\* True whatever k and the witnesses are; for n <= 3 and for even n it returns
\* exactly the primality of n.
C9_IsPrimeNoFalseNegative ==
    /\ ip.result # "ValueError"
    /\ ip.pc = "done" =>
          /\ IsPrimeNumber(ip.n) => ip.result = "True"
          /\ (ip.n <= 3 \/ ip.n % 2 = 0) =>
                ip.result = (IF IsPrimeNumber(ip.n) THEN "True" ELSE "False")

\* A prime n >= 5 has gone through at least two rounds and was accepted.
C9_Witness ==
    /\ ip.pc = "done"
    /\ IsPrimeNumber(ip.n)
    /\ ip.n >= 5
    /\ ip.round >= 2
    /\ ip.result = "True"

(***************************************************************************)
(* RSA: a key (p, q, n, phi_n, e, d) with d = mod_inverse(e, phi_n), one   *)
(* message encrypted with (e, n) and the ciphertext decrypted with (d, n). *)
(***************************************************************************)
PrimesUpTo(b) == {p \in 2..b : IsPrimeNumber(p)}

RsaChooseKey ==
    /\ rsa.stage = "nokey"
    /\ \E p \in PrimesUpTo(MaxRsaPrime), q \in PrimesUpTo(MaxRsaPrime),
          e \in 0..MaxRsaE :
          LET n == p * q
              phi_n == (p - 1) * (q - 1)
              inv == mod_inverse(e, phi_n)
          IN  /\ ~inv.raised
              /\ rsa' = [rsa EXCEPT !.stage = "key", !.p = p, !.q = q, !.n = n,
                                    !.phi_n = phi_n, !.e = e, !.d = inv.value]
    /\ UNCHANGED <<call, ip, kg, eg>>

RsaEncrypt ==
    /\ rsa.stage = "key"
    /\ \E m \in 0..(rsa.n - 1) :
          rsa' = [rsa EXCEPT !.stage = "encrypted", !.m = m,
                             !.c = rsa_encrypt(<<m>>, rsa.e, rsa.n)]
    /\ UNCHANGED <<call, ip, kg, eg>>

RsaDecrypt ==
    /\ rsa.stage = "encrypted"
    /\ rsa' = [rsa EXCEPT !.stage = "decrypted",
                          !.out = rsa_decrypt(rsa.c, rsa.d, rsa.n)]
    /\ UNCHANGED <<call, ip, kg, eg>>

RsaDiscard ==
    /\ rsa.stage = "decrypted"
    /\ rsa' = RsaIdle
    /\ UNCHANGED <<call, ip, kg, eg>>

NextRSA ==
    \/ RsaChooseKey
    \/ RsaEncrypt
    \/ RsaDecrypt
    \/ RsaDiscard

SpecRSA == Init /\ [][NextRSA]_vars

\* C1 as stated: for all primes p and q, every e coprime to phi_n with
\* d = mod_inverse(e, phi_n) and every m in [0, n), decrypting the encryption
\* of [m] gives [m].
C1_RoundTripAsStated ==
    rsa.stage = "decrypted" => rsa.out = <<rsa.m>>

\* C1 amended: the same for all primes p and q that are distinct.
C1_RoundTripDistinctPrimes ==
    (rsa.stage = "decrypted" /\ rsa.p # rsa.q) => rsa.out = <<rsa.m>>

\* Under distinct primes a message was changed by encryption and recovered.
C1_Witness ==
    /\ rsa.stage = "decrypted"
    /\ rsa.p # rsa.q
    /\ rsa.e > 1
    /\ rsa.c # <<rsa.m>>
    /\ rsa.out = <<rsa.m>>

(***************************************************************************)
(* ElGamal: gen_key over a safe prime p, then signmsg and verify as in the *)
(* main program, which signs one message twice and verifies a message      *)
(* against each signature.                                                 *)
(***************************************************************************)
SigningDraws(p) == {k \in 2..(p - 2) : extended_gcd(k, p - 1).gcd = 1}

GenKey ==
    /\ eg.stage = "nokey"
    /\ \E p \in SafePrimesUpTo(MaxSignP) :
          \E x \in 2..(p - 2) :
             LET g == find_generator(p).g
             IN  eg' = [eg EXCEPT !.stage = "key", !.p = p, !.g = g, !.x = x,
                                  !.y = quick_pow(g, x, p)]
    /\ UNCHANGED <<call, ip, rsa, kg>>

SignFirst ==
    /\ eg.stage = "key"
    /\ \E H \in 0..MaxDigest, k \in SigningDraws(eg.p) :
          eg' = [eg EXCEPT !.stage = "signed1", !.H = H,
                           !.sig1 = signmsg(H, eg.p, eg.g, eg.x, k)]
    /\ UNCHANGED <<call, ip, rsa, kg>>

SignSecond ==
    /\ eg.stage = "signed1"
    /\ \E k \in SigningDraws(eg.p) :
          eg' = [eg EXCEPT !.stage = "signed2",
                           !.sig2 = signmsg(eg.H, eg.p, eg.g, eg.x, k)]
    /\ UNCHANGED <<call, ip, rsa, kg>>

\* verify of message digest H against signature number i.
VerifyWith(H, i) ==
    LET sig == IF i = 1 THEN eg.sig1 ELSE eg.sig2
    IN  eg' = [eg EXCEPT !.stage = "verified", !.vH = H, !.vsig = i,
                         !.vok = verify(H, sig.r, sig.s, eg.p, eg.g, eg.y)]

\* The signed message itself is verified, against either signature.
VerifySigned ==
    /\ \/ eg.stage = "signed1" /\ VerifyWith(eg.H, 1)
       \/ eg.stage = "signed2" /\ \E i \in 1..2 : VerifyWith(eg.H, i)
    /\ UNCHANGED <<call, ip, rsa, kg>>

\* Any message is verified against the signature of the signed one.
VerifyAny ==
    /\ eg.stage = "signed1"
    /\ \E H \in 0..MaxDigest : VerifyWith(H, 1)
    /\ UNCHANGED <<call, ip, rsa, kg>>

EgDiscard ==
    /\ eg.stage = "verified"
    /\ eg' = EgIdle
    /\ UNCHANGED <<call, ip, rsa, kg>>

NextSign ==
    \/ GenKey
    \/ SignFirst
    \/ SignSecond
    \/ VerifySigned
    \/ EgDiscard

SpecSign == Init /\ [][NextSign]_vars

NextTamper ==
    \/ GenKey
    \/ SignFirst
    \/ VerifyAny
    \/ EgDiscard

SpecTamper == Init /\ [][NextTamper]_vars

\* The signature the verification was run against.
VerifiedSig == IF eg.vsig = 1 THEN eg.sig1 ELSE eg.sig2

\* C2: a signature made by signmsg verifies for the message it was made for,
\* whatever the key, the digest and the k drawn, also when H - x*r or the
\* Bezout coefficient used as k_inv is negative.
C2_SignThenVerify ==
    (eg.stage = "verified" /\ eg.vH = eg.H) => eg.vok

\* A signature made with a negative k_inv over a negative H - x*r verified.
C2_Witness ==
    /\ eg.stage = "verified"
    /\ eg.vH = eg.H
    /\ eg.vok
    /\ extended_gcd(VerifiedSig.k, eg.p - 1).x < 0
    /\ eg.H - eg.x * VerifiedSig.r < 0

\* C3 as stated: verify of a message whose digest differs from the signed
\* one's returns False.
C3_TamperAsStated ==
    (eg.stage = "verified" /\ eg.vH # eg.H) => ~eg.vok

\* C3 amended: verify returns False for every message whose digest is not
\* congruent to the signed one's modulo p - 1, and True when it is congruent.
C3_TamperModOrder ==
    eg.stage = "verified" => (eg.vok <=> (eg.vH - eg.H) % (eg.p - 1) = 0)

\* A message with an incongruent digest was rejected under p = 23, g = 5,
\* x = 6, y = 8.
C3_Witness ==
    /\ eg.stage = "verified"
    /\ eg.p = 23 /\ eg.g = 5 /\ eg.x = 6 /\ eg.y = 8
    /\ (eg.vH - eg.H) % (eg.p - 1) # 0
    /\ ~eg.vok

\* C4 as stated: two signmsg calls for the same message and key never return
\* the same (r, s).
C4_NeverRepeatedAsStated ==
    eg.stage = "signed2" =>
        <<eg.sig1.r, eg.sig1.s>> # <<eg.sig2.r, eg.sig2.s>>

\* C4 amended: two signmsg calls for the same message and key return the same
\* (r, s) exactly when they draw the same k, which nothing excludes.
C4_RepeatedIffSameK ==
    eg.stage = "signed2" =>
        (<<eg.sig1.r, eg.sig1.s>> = <<eg.sig2.r, eg.sig2.s>>
            <=> eg.sig1.k = eg.sig2.k)

\* Two calls drew different k and returned different pairs.
C4_Witness ==
    /\ eg.stage = "signed2"
    /\ eg.sig1.k # eg.sig2.k
    /\ <<eg.sig1.r, eg.sig1.s>> # <<eg.sig2.r, eg.sig2.s>>

(***************************************************************************)
(* rsa.key_gen: gen_large_prime twice (a random start, then linear probing *)
(* with is_prime at its default round count), then n, phi_n, e and         *)
(* d = mod_inverse(e, phi_n).  A ValueError of mod_inverse is not caught   *)
(* in key_gen and ends it.                                                 *)
(***************************************************************************)
KgSearching == kg.pc \in {"search_p", "search_q"}

\* is_prime(kg.cand) has returned True.
KgAccepted ==
    \/ is_prime_entry(kg.cand) = "True"
    \/ is_prime_entry(kg.cand) = "rounds" /\ kg.round = DefaultRounds

\* The statements of key_gen after the two primes.
key_gen_finish(p, q) ==
    LET n == p * q
        phi_n == (p - 1) * (q - 1)
        e == KeyGenE
        inv == mod_inverse(e, phi_n)
    IN  [pc |-> "done", p |-> p, q |-> q, cand |-> 0, round |-> 0,
         n |-> n, phi_n |-> phi_n, e |-> e, d |-> inv.value,
         status |-> IF inv.raised THEN "ValueError" ELSE "returned"]

KgStart ==
    /\ kg.pc = "idle"
    /\ \E c \in PrimeLo..PrimeHi :
          kg' = [kg EXCEPT !.pc = "search_p", !.cand = c, !.round = 0]
    /\ UNCHANGED <<call, ip, rsa, eg>>

\* is_prime(kg.cand) returns False before any round: large_prime += 1.
KgCandidateRejected ==
    /\ KgSearching
    /\ is_prime_entry(kg.cand) = "False"
    /\ kg' = [kg EXCEPT !.cand = @ + 1, !.round = 0]
    /\ UNCHANGED <<call, ip, rsa, eg>>

\* One Miller-Rabin round on kg.cand; a failed round ends is_prime with False.
KgCandidateRound ==
    /\ KgSearching
    /\ is_prime_entry(kg.cand) = "rounds"
    /\ kg.round < DefaultRounds
    /\ \E a \in WitnessDraws(kg.cand) :
          IF miller_rabin_test(odd_part(kg.cand - 1), kg.cand, a)
          THEN kg' = [kg EXCEPT !.round = @ + 1]
          ELSE kg' = [kg EXCEPT !.cand = @ + 1, !.round = 0]
    /\ UNCHANGED <<call, ip, rsa, eg>>

\* The first gen_large_prime returns; the second one draws its start.
KgFoundP ==
    /\ kg.pc = "search_p"
    /\ KgAccepted
    /\ \E c \in PrimeLo..PrimeHi :
          kg' = [kg EXCEPT !.pc = "search_q", !.p = kg.cand, !.cand = c,
                           !.round = 0]
    /\ UNCHANGED <<call, ip, rsa, eg>>

\* The second gen_large_prime returns and key_gen runs to its end.
KgFoundQ ==
    /\ kg.pc = "search_q"
    /\ KgAccepted
    /\ kg' = key_gen_finish(kg.p, kg.cand)
    /\ UNCHANGED <<call, ip, rsa, eg>>

KgDiscard ==
    /\ kg.pc = "done"
    /\ kg' = KgIdle
    /\ UNCHANGED <<call, ip, rsa, eg>>

NextKeyGen ==
    \/ KgStart
    \/ KgCandidateRejected
    \/ KgCandidateRound
    \/ KgFoundP
    \/ KgFoundQ
    \/ KgDiscard

SpecKeyGen == Init /\ [][NextKeyGen]_vars

\* C7: key_gen always ends by returning a key with gcd(e, phi_n) = 1 and
\* e*d = 1 (mod phi_n); it never ends in an error.
C7_KeyGenAlwaysReturnsValidKey ==
    kg.pc = "done" =>
        /\ kg.status = "returned"
        /\ Gcd(kg.e, kg.phi_n) = 1
        /\ (kg.e * kg.d) % kg.phi_n = 1

(***************************************************************************)
(* The whole system: every operation of both programs.                     *)
(***************************************************************************)
Next ==
    \/ NextArith
    \/ NextPrime
    \/ NextRSA
    \/ NextKeyGen
    \/ NextSign
    \/ NextTamper

Spec == Init /\ [][Next]_vars

=============================================================================
